---- MODULE Spec2Model ----
(***************************************************************************)
(* cvopt.model_selection._search: the four search coordinators             *)
(* (HyperoptCV, BayesoptCV, GAoptCV, RandomoptCV) behind SimpleoptCV, the   *)
(* objective-function harness they build with mk_objfunc and the genetic    *)
(* search loop gamin.  The coordinators are translated from _search.py;     *)
(* mk_objfunc, the CVSummarizer behind self._cvs, gamin and                 *)
(* BaseSearcher._postproc_fit live in _base.py, _ga.py and _logger.py and   *)
(* are modelled from the specification's sections 3, 4 and 7.               *)
(***************************************************************************)
EXTENDS Integers, Sequences, FiniteSets, TLC

\* ---------------------------------------------------------------- bounds
MaxIter == 3          \* max_iter of the genetic and the random search
MaxEvals == 2         \* max_iter of hyperopt's and GPyOpt's drivers
NFolds == 2           \* folds the cross-validator produces
MaxInitDesign == 1    \* GPyOpt's initial_design_numdata
MaxFits == 2          \* fit() calls on one searcher, where fit is repeated

\* iter_pergeneration: the population sizes searched with.
PopSizes == {1, 2}

Folds == 1..NFolds

\* ------------------------------------------------------- scores (exact)
\* A score is a rational number or the undefined value (numpy.nan).
RECURSIVE GCD(_, _)
GCD(a, b) == IF b = 0 THEN a ELSE GCD(b, a % b)

Abs(n) == IF n < 0 THEN -n ELSE n

Frac(n, d) ==
    LET g == GCD(Abs(n), d)
    IN  [nan |-> FALSE, num |-> n \div g, den |-> d \div g]

NaN == [nan |-> TRUE, num |-> 0, den |-> 1]

IsNaN(s) == s.nan

Neg(s) == IF s.nan THEN s ELSE [s EXCEPT !.num = -s.num]

\* s < t on floats: every comparison with nan is false.
Less(s, t) == ~s.nan /\ ~t.nan /\ s.num * t.den < t.num * s.den

RECURSIVE SumSeq(_)
SumSeq(q) == IF q = <<>> THEN 0 ELSE Head(q) + SumSeq(Tail(q))

\* ----------------------------------------------------- the search space
\* A ParameterSet: the inclusion flag of the feature group and one estimator
\* hyperparameter.
ParamNames == {"f1", "h"}
ParamSpace == [f1 : BOOLEAN, h : 1..2]

\* feature_groups: the group label of each column of X (two columns, one
\* group).
feature_groups == <<1, 1>>

\* ------------------------------------------------------ probabilities
\* Probabilities and uniform draws in units of one half: a probability is
\* 0, 1/2 or 1 and a draw of numpy.random.rand() is 0 or 1/2.
ProbaVals == {0, 1, 2}
Draws == {0, 1}

\* The probability n/d in these units.
Prob(n, d) == (2 * n) \div d

\* A probability argument is a float or a function of the generation
\* number.  The functions searched with:
\*   Decay: lambda generation: max(0, 1.5 - 0.5 * generation)
\*   Ramp:  lambda generation: min(1, 0.5 * (generation - 1))
Decay == 10
Ramp == 11
Callables == {Decay, Ramp}

callable(p) == p \in Callables

Max(a, b) == IF a >= b THEN a ELSE b
Min(a, b) == IF a <= b THEN a ELSE b

\* f(generation), in units of one half.
Apply(f, generation) ==
    IF f = Decay THEN Max(0, 3 - generation) ELSE Min(2, generation - 1)

\* A probability argument evaluated for a generation (constants ignore it).
Proba(p, generation) == IF callable(p) THEN Apply(p, generation) ELSE p

\* The generations a probability function is called with when the argument
\* is evaluated for a generation.
ProbaCalls(p, generation) == IF callable(p) THEN {generation} ELSE {}

\* ---------------------------------------------------- FeatureSelector
\* The sorted set of the columns whose group's flag is true.
GroupFlag(p, g) == g = 1 /\ p.f1

mk_feature_select_index(p) ==
    {c \in 1..Len(feature_groups) : GroupFlag(p, feature_groups[c])}

\* ------------------------------------------------------ FoldEvaluator
\* The estimator under search (a stand-in for the pluggable model): with
\* h = 1 every fold fits; with h = 2 fit raises on the first folds, on one
\* at least and possibly on all.  A fold that fits scores a number that
\* depends on the selected columns, the hyperparameter and the fold.
FailSets(p) ==
    IF p.h = 2 THEN {1..j : j \in 1..NFolds} ELSE {{}}

FoldValue(p, cols, k) == 2 * Cardinality(cols) + k - 3 * (p.h - 1)

\* One fold: the fold's score, or the failure score when fit/score raised
\* (raises: the folds on which it does).
fit_and_score(p, cols, k, failedscore, raises) ==
    IF k \in raises
    THEN [ok |-> FALSE, score |-> failedscore]
    ELSE [ok |-> TRUE, score |-> Frac(FoldValue(p, cols, k), 1)]

\* ---------------------------------------------------------- aggregator
\* Arithmetic mean of the folds that succeeded; the failure score when none
\* did.
Succeeded(fs) == SelectSeq(fs, LAMBDA r : r.ok)

score_summarizer(fs, failedscore) ==
    LET good == Succeeded(fs)
        nums == [i \in 1..Len(good) |-> good[i].score.num]
    IN  IF good = <<>> THEN failedscore ELSE Frac(SumSeq(nums), Len(good))

\* ---------------------------------------------------- ObjectiveFunction
\* Every driver of this module minimizes: the score handed back is negated
\* when the scoring convention is greater-is-better.
DriverScore(score, greater_is_better) ==
    IF greater_is_better THEN Neg(score) ELSE score

\* The trial record of one call obj(params) of the objective o built by
\* mk_objfunc.  nfold counts the FoldEvaluator calls the trial made.
Summarize(o, p, gen, cols, fs) ==
    LET sc == score_summarizer(fs, o.failedscore)
    IN  [gen |-> gen, params |-> p, cols |-> cols, fold_scores |-> fs,
         score |-> sc, failed |-> (\E k \in Folds : ~fs[k].ok),
         nfold |-> NFolds,
         ret |-> DriverScore(sc, o.greater_is_better)]

Evaluate(o, p, gen, raises) ==
    LET cols == mk_feature_select_index(p)
    IN  IF Cardinality(cols) < o.min_n_features
        THEN [gen |-> gen, params |-> p, cols |-> cols, fold_scores |-> <<>>,
              score |-> o.failedscore, failed |-> TRUE, nfold |-> 0,
              ret |-> o.failedscore]
        ELSE Summarize(o, p, gen, cols,
                       [k \in Folds |-> fit_and_score(p, cols, k,
                                                      o.failedscore, raises)])

\* a is better than b in the configured direction (strictly; nan never is).
Better(a, b, greater_is_better) ==
    IF greater_is_better THEN Less(b, a) ELSE Less(a, b)

\* CVSummarizer: BestResult after recording trial row t.
NoParams == [f1 |-> FALSE, h |-> 1]
NoBest == [set |-> FALSE, params |-> NoParams, score |-> NaN]

UpdateBest(b, t, greater_is_better) ==
    IF \/ ~b.set /\ ~IsNaN(t.score)
       \/ b.set /\ Better(t.score, b.score, greater_is_better)
    THEN [set |-> TRUE, params |-> t.params, score |-> t.score]
    ELSE b

\* ================================================================ state
VARIABLES
    args,         \* the arguments of SimpleoptCV(...) and of fit(...)
    optcv,        \* the searcher SimpleoptCV created: its class, or "none"
    self,         \* the searcher's attributes
    pc,           \* where the run is
    obj,          \* the objective function mk_objfunc built
    drv,          \* the driver call fit made, with its arguments
    history,      \* self._cvs: the trial history, in order
    best,         \* self._cvs.best_params_ / best_score_
    nEval,        \* evaluations the driver call in fit's try block has made
    ncalls,       \* calls of the objective function, in all
    ga,           \* gamin's state
    interrupted,  \* a KeyboardInterrupt was raised during the run
    calls,        \* the operations fit has performed, in order
    post,         \* what _postproc_fit was called with
    outcome,      \* what the run returned or raised
    pool          \* the fold evaluations of the trial in progress (n_jobs > 1)

vars == <<args, optcv, self, pc, obj, drv, history, best, nEval, ncalls, ga,
          interrupted, calls, post, outcome, pool>>

Absent == -1
Unset == [nan |-> FALSE, num |-> 0, den |-> 0]    \* None

\* random_state values: None, an int, a numpy.random.RandomState built from
\* an int; NotPassed: no random source is handed over.
NoneState == [kind |-> "None", seed |-> 0]
IntSeed(n) == [kind |-> "int", seed |-> n]
RandomState(n) == [kind |-> "RandomState", seed |-> n]
NotPassed == [kind |-> "not passed", seed |-> 0]
Seeds == {IntSeed(0), IntSeed(1)}

Supported == {"hyperopt", "bayesopt", "gaopt", "randomopt"}
BackendNames == Supported \cup {"other"}

\* The scores BayesoptCV._random_scoring(y) may produce.
RandomScores == {Frac(0, 1), Frac(9, 1)}

\* fit's min_n_features (its default).
min_n_features == 2

MaxIterOf(backend) ==
    IF backend \in {"gaopt", "randomopt"} THEN MaxIter ELSE MaxEvals

BaseArgs ==
    [backend : BackendNames, max_iter : 1..MaxIter,
     greater_is_better : BOOLEAN, fits : {1}, random_state : {NoneState},
     n_jobs : {1},
     iter_pergeneration : {Absent}, param_crossover_proba : {Absent},
     param_mutation_proba : {Absent}, random_sampling_proba : {Absent},
     initial_design_numdata : {Absent}]

ArgSets ==
    {a \in BaseArgs : /\ a.backend \notin {"gaopt", "bayesopt"}
                      /\ a.max_iter <= MaxIterOf(a.backend)}
    \cup {[a EXCEPT !.iter_pergeneration = n, !.param_crossover_proba = c,
                    !.param_mutation_proba = m, !.random_sampling_proba = r] :
            a \in {b \in BaseArgs : b.backend = "gaopt"},
            n \in PopSizes, c \in ProbaVals, m \in ProbaVals, r \in ProbaVals}
    \cup {[a EXCEPT !.initial_design_numdata = n] :
            a \in {b \in BaseArgs : /\ b.backend = "bayesopt"
                                    /\ b.max_iter <= MaxEvals},
            n \in 1..MaxInitDesign}

NoSelf ==
    [backend |-> "none", max_iter |-> Absent, iter_pergeneration |-> Absent,
     param_crossover_proba |-> Absent, param_mutation_proba |-> Absent,
     random_sampling_proba |-> Absent, initial_design_numdata |-> Absent,
     failedscore |-> Unset, greater_is_better |-> FALSE,
     random_state |-> NoneState, n_jobs |-> 1]

NoObj == [backend |-> "none", failedscore |-> Unset, min_n_features |-> Absent,
          greater_is_better |-> FALSE]

NoDrv == [name |-> "none", max_iter |-> Absent, iter_pergeneration |-> Absent,
          param_crossover_proba |-> Absent, param_mutation_proba |-> Absent,
          random_sampling_proba |-> Absent]

\* proba: the probability the last breeding decision used; fcalls: the
\* generation numbers the probability functions have been called with.
NoGa == [state |-> "Idle", generation |-> 0, population |-> <<>>,
         cursor |-> 0, pairs |-> <<>>, nextpop |-> <<>>, stage |-> "none",
         child |-> NoParams, proba |-> Absent, fcalls |-> {}]

NoPost == [ran |-> FALSE, best |-> NoBest]

\* The objective calls in progress.  batch: the trials submitted, in
\* submission order; finished: the fold evaluations that have completed, in
\* completion order; written: the rows of the batch appended so far;
\* appended: the last row is in the history and BestResult has not yet been
\* compared with it.
NoPool == [busy |-> FALSE, batch |-> <<>>, finished |-> <<>>, written |-> 0,
           appended |-> FALSE]

Init ==
    /\ args \in ArgSets
    /\ optcv = "none"
    /\ self = NoSelf
    /\ pc = "init"
    /\ obj = NoObj
    /\ drv = NoDrv
    /\ history = <<>>
    /\ best = NoBest
    /\ nEval = 0
    /\ ncalls = 0
    /\ ga = NoGa
    /\ interrupted = FALSE
    /\ calls = <<>>
    /\ post = NoPost
    /\ outcome = "none"
    /\ pool = NoPool

\* ------------------------------------------------------- construction
\* BaseSearcher.__init__ keeps the scoring; each class adds its own fields.
BaseInit(a, backend) ==
    [NoSelf EXCEPT !.backend = backend,
                   !.greater_is_better = a.greater_is_better,
                   !.n_jobs = a.n_jobs]

\* "if random_state is None: self.random_state = random_state
\*  else: self.random_state = np.random.RandomState(int(random_state))".
StoredRandomState(random_state) ==
    IF random_state.kind = "None" THEN random_state
    ELSE RandomState(random_state.seed)

HyperoptCV_init(a) ==
    [BaseInit(a, "hyperopt") EXCEPT
        !.max_iter = a.max_iter,
        !.random_state = StoredRandomState(a.random_state)]

BayesoptCV_init(a) ==
    [BaseInit(a, "bayesopt") EXCEPT
        !.max_iter = a.max_iter,
        !.initial_design_numdata = a.initial_design_numdata,
        !.random_state = a.random_state,
        !.failedscore = Unset]

GAoptCV_init(a) ==
    [BaseInit(a, "gaopt") EXCEPT
        !.max_iter = a.max_iter,
        !.iter_pergeneration = a.iter_pergeneration,
        !.param_crossover_proba = a.param_crossover_proba,
        !.param_mutation_proba = a.param_mutation_proba,
        !.random_sampling_proba = a.random_sampling_proba,
        !.random_state = StoredRandomState(a.random_state)]

RandomoptCV_init(a) ==
    [BaseInit(a, "gaopt") EXCEPT
        !.max_iter = a.max_iter,
        !.random_state = StoredRandomState(a.random_state)]

\* (faulty variant) an unknown backend name falls back to hyperopt
SearcherClass_DefaultHyperopt(backend) ==
    IF backend = "bayesopt" THEN "BayesoptCV"
    ELSE IF backend = "gaopt" THEN "GAoptCV"
    ELSE IF backend = "randomopt" THEN "RandomoptCV"
    ELSE "HyperoptCV"

\* SimpleoptCV.__init__'s dispatch on the backend name: the class created,
\* or "none" when the name is not supported (the constructor raises).
SearcherClass(backend) ==
    IF backend = "hyperopt" THEN "HyperoptCV"
    ELSE IF backend = "bayesopt" THEN "BayesoptCV"
    ELSE IF backend = "gaopt" THEN "GAoptCV"
    ELSE IF backend = "randomopt" THEN "RandomoptCV"
    ELSE "none"

ClassInit(cls, a) ==
    CASE cls = "HyperoptCV" -> HyperoptCV_init(a)
      [] cls = "BayesoptCV" -> BayesoptCV_init(a)
      [] cls = "GAoptCV" -> GAoptCV_init(a)
      [] cls = "RandomoptCV" -> RandomoptCV_init(a)

SimpleoptCV_init ==
    /\ pc = "init"
    /\ LET cls == SearcherClass(args.backend)
       IN  IF cls = "none"
           THEN /\ pc' = "ctor_raised"
                /\ outcome' = "Exception"
                /\ UNCHANGED <<optcv, self>>
           ELSE /\ optcv' = cls
                /\ self' = ClassInit(cls, args)
                /\ pc' = "constructed"
                /\ UNCHANGED outcome
    /\ UNCHANGED <<args, pool, obj, drv, history, ncalls, best, nEval, ga, interrupted,
                   calls, post>>

\* ------------------------------------------------------------ fit entry
\* What each class's fit hands to mk_objfunc (s: the searcher, n: fit's
\* min_n_features argument).
\* (faulty variant) a finite failure score in place of numpy.nan
HyperoptCV_fit_objfunc_FiniteFailed(s, n) ==
    [backend |-> s.backend, failedscore |-> Frac(0, 1), min_n_features |-> n,
     greater_is_better |-> s.greater_is_better]

HyperoptCV_fit_objfunc(s, n) ==
    [backend |-> s.backend, failedscore |-> NaN, min_n_features |-> n,
     greater_is_better |-> s.greater_is_better]

\* (faulty variant) numpy.nan as the failure score, as in the other classes
BayesoptCV_fit_objfunc_NanFailed(s, n) ==
    [backend |-> s.backend, failedscore |-> NaN, min_n_features |-> n,
     greater_is_better |-> s.greater_is_better]

BayesoptCV_fit_objfunc(s, n) ==
    [backend |-> s.backend, failedscore |-> s.failedscore,
     min_n_features |-> n, greater_is_better |-> s.greater_is_better]

\* (faulty variant) fit's min_n_features is not handed on
GAoptCV_fit_objfunc_NoMinFeatures(s, n) ==
    [backend |-> s.backend, failedscore |-> NaN, min_n_features |-> 0,
     greater_is_better |-> s.greater_is_better]

\* (faulty variant) 0 as the failure score
GAoptCV_fit_objfunc_ZeroFailed(s, n) ==
    [backend |-> s.backend, failedscore |-> Frac(0, 1), min_n_features |-> n,
     greater_is_better |-> s.greater_is_better]

GAoptCV_fit_objfunc(s, n) ==
    [backend |-> s.backend, failedscore |-> NaN, min_n_features |-> n,
     greater_is_better |-> s.greater_is_better]

\* (faulty variant) the failure score is a number the folds can score
RandomoptCV_fit_objfunc_FoldLikeFailed(s, n) ==
    [backend |-> s.backend, failedscore |-> Frac(5, 1), min_n_features |-> n,
     greater_is_better |-> s.greater_is_better]

RandomoptCV_fit_objfunc(s, n) ==
    [backend |-> s.backend, failedscore |-> NaN, min_n_features |-> n,
     greater_is_better |-> s.greater_is_better]

\* The driver each class's fit calls, with its arguments.
HyperoptCV_fit_driver(s) ==
    [NoDrv EXCEPT !.name = "fmin", !.max_iter = s.max_iter]

BayesoptCV_fit_driver(s) ==
    [NoDrv EXCEPT !.name = "BayesianOptimization", !.max_iter = s.max_iter]

\* (faulty variant) fit evaluates the probability functions itself, before
\* the first generation, and hands gamin the numbers
GAoptCV_fit_driver_EvaluatedAtFit(s) ==
    [name |-> "gamin", max_iter |-> s.max_iter,
     iter_pergeneration |-> s.iter_pergeneration,
     param_crossover_proba |-> Proba(s.param_crossover_proba, 0),
     param_mutation_proba |-> Proba(s.param_mutation_proba, 0),
     random_sampling_proba |-> Proba(s.random_sampling_proba, 0)]

\* (faulty variant) max_iter and iter_pergeneration change places in the call
GAoptCV_fit_driver_SwappedIter(s) ==
    [name |-> "gamin", max_iter |-> s.iter_pergeneration,
     iter_pergeneration |-> s.max_iter,
     param_crossover_proba |-> s.param_crossover_proba,
     param_mutation_proba |-> s.param_mutation_proba,
     random_sampling_proba |-> s.random_sampling_proba]

\* (faulty variant) the mutation and the random sampling probability change
\* places
GAoptCV_fit_driver_SwappedSampling(s) ==
    [name |-> "gamin", max_iter |-> s.max_iter,
     iter_pergeneration |-> s.iter_pergeneration,
     param_crossover_proba |-> s.param_crossover_proba,
     param_mutation_proba |-> s.random_sampling_proba,
     random_sampling_proba |-> s.param_mutation_proba]

\* (faulty variant) the crossover and the mutation probability change places
GAoptCV_fit_driver_SwappedProba(s) ==
    [name |-> "gamin", max_iter |-> s.max_iter,
     iter_pergeneration |-> s.iter_pergeneration,
     param_crossover_proba |-> s.param_mutation_proba,
     param_mutation_proba |-> s.param_crossover_proba,
     random_sampling_proba |-> s.random_sampling_proba]

GAoptCV_fit_driver(s) ==
    [name |-> "gamin", max_iter |-> s.max_iter,
     iter_pergeneration |-> s.iter_pergeneration,
     param_crossover_proba |-> s.param_crossover_proba,
     param_mutation_proba |-> s.param_mutation_proba,
     random_sampling_proba |-> s.random_sampling_proba]

\* (faulty variant) generations of two individuals
RandomoptCV_fit_driver_TwoPerGeneration(s) ==
    [name |-> "gamin", max_iter |-> s.max_iter,
     iter_pergeneration |-> 2,
     param_crossover_proba |-> Prob(0, 1),
     param_mutation_proba |-> Prob(0, 1),
     random_sampling_proba |-> Prob(1, 1)]

\* (faulty variant) random sampling switched off
RandomoptCV_fit_driver_NoSampling(s) ==
    [name |-> "gamin", max_iter |-> s.max_iter,
     iter_pergeneration |-> 1,
     param_crossover_proba |-> Prob(0, 1),
     param_mutation_proba |-> Prob(0, 1),
     random_sampling_proba |-> Prob(0, 1)]

RandomoptCV_fit_driver(s) ==
    [name |-> "gamin", max_iter |-> s.max_iter,
     iter_pergeneration |-> 1,
     param_crossover_proba |-> Prob(0, 1),
     param_mutation_proba |-> Prob(0, 1),
     random_sampling_proba |-> Prob(1, 1)]

\* (faulty variant) GPyOpt is asked to maximize
Maximize_BayesMaximizes(driver) == driver = "BayesianOptimization"

\* Whether the driver looks for the largest value of the objective:
\* BayesianOptimization is built with maximize=False, hyperopt's fmin and
\* gamin minimize.
Maximize(driver) == FALSE

\* The operations each class's fit performs up to and including the driver
\* call.
HyperoptCV_fit_calls == <<"_preproc_fit", "mk_objfunc", "fmin">>

BayesoptCV_fit_calls(first) ==
    <<"_preproc_fit", "np.random.seed">>
    \o (IF first THEN <<"_random_scoring">> ELSE <<>>)
    \o <<"mk_objfunc", "BayesianOptimization">>

GAoptCV_fit_calls == <<"_preproc_fit", "np.random.seed", "mk_objfunc", "gamin">>

RandomoptCV_fit_calls ==
    <<"_preproc_fit", "np.random.seed", "mk_objfunc", "gamin">>

FitObjfunc(cls, s, n) ==
    CASE cls = "HyperoptCV" -> HyperoptCV_fit_objfunc(s, n)
      [] cls = "BayesoptCV" -> BayesoptCV_fit_objfunc(s, n)
      [] cls = "GAoptCV" -> GAoptCV_fit_objfunc(s, n)
      [] cls = "RandomoptCV" -> RandomoptCV_fit_objfunc(s, n)

FitDriver(cls, s) ==
    CASE cls = "HyperoptCV" -> HyperoptCV_fit_driver(s)
      [] cls = "BayesoptCV" -> BayesoptCV_fit_driver(s)
      [] cls = "GAoptCV" -> GAoptCV_fit_driver(s)
      [] cls = "RandomoptCV" -> RandomoptCV_fit_driver(s)

FitCalls(cls, first) ==
    CASE cls = "HyperoptCV" -> HyperoptCV_fit_calls
      [] cls = "BayesoptCV" -> BayesoptCV_fit_calls(first)
      [] cls = "GAoptCV" -> GAoptCV_fit_calls
      [] cls = "RandomoptCV" -> RandomoptCV_fit_calls

\* numpy.random.seed(x) on the process-wide generator: None reseeds it from
\* the operating system's entropy and an int seeds it; a RandomState object
\* is no seed, numpy raises TypeError unless the build coerces it.
np_random_seed(x) ==
    CASE x.kind = "None" -> {"entropy"}
      [] x.kind = "int" -> {"seeded"}
      [] x.kind = "RandomState" -> {"TypeError", "seeded"}

\* What fit's call np.random.seed(self.random_state) does; HyperoptCV.fit
\* makes no such call.
FitSeeding(cls, s) ==
    IF cls = "HyperoptCV" THEN {"no call"} ELSE np_random_seed(s.random_state)

\* The random source fit hands to its driver: fmin gets
\* rstate=self.random_state, gamin and BayesianOptimization get none.
FitRstate(cls, s) ==
    IF cls = "HyperoptCV" THEN s.random_state ELSE NotPassed

\* The fit() calls made on the searcher so far.
FitsMade == Cardinality({i \in 1..Len(calls) : calls[i] = "_preproc_fit"})

\* (faulty variant) the failure score is sampled anew by every fit
BayesoptCV_fit_samples_EveryFit(s) == TRUE

\* BayesoptCV.fit: "if self.failedscore is None".
BayesoptCV_fit_samples(s) == s.failedscore = Unset

\* fit, from its entry to the call of the driver: on a new searcher, or
\* again on one whose earlier fit returned or raised (args.fits calls in
\* all).  Each fit starts a trial history of its own.  BayesoptCV samples
\* its failure score when it has none; the other classes keep theirs unset.
Fit ==
    /\ \/ pc = "constructed"
       \/ pc \in {"done", "raised"} /\ FitsMade < args.fits
    /\ \E rs \in RandomScores, sd \in FitSeeding(optcv, self) :
          IF sd = "TypeError"
          THEN /\ calls' = calls \o <<"_preproc_fit", "np.random.seed">>
               /\ pc' = "raised"
               /\ outcome' = "TypeError"
               /\ UNCHANGED <<self, obj, drv, ga>>
          ELSE LET first == optcv = "BayesoptCV" /\ BayesoptCV_fit_samples(self)
                   s1 == IF first THEN [self EXCEPT !.failedscore = rs]
                         ELSE self
                   d == FitDriver(optcv, s1)
               IN  /\ self' = s1
                   /\ obj' = FitObjfunc(optcv, s1, min_n_features)
                   /\ drv' = d
                   /\ calls' = calls \o FitCalls(optcv, first)
                   /\ ga' = IF d.name = "gamin"
                            THEN [NoGa EXCEPT !.state = "Initializing"]
                            ELSE NoGa
                   /\ pc' = IF d.name = "BayesianOptimization"
                            THEN "bo_init" ELSE "search"
                   /\ outcome' = "none"
    /\ nEval' = 0
    /\ history' = <<>>
    /\ ncalls' = 0
    /\ best' = NoBest
    /\ interrupted' = FALSE
    /\ post' = NoPost
    /\ UNCHANGED <<args, pool, optcv>>

\* ------------------------------------------- recording one objective call
\* obj(p) run from call to return with nothing landing inside it: the
\* trial is evaluated, its row appended to the history and BestResult
\* updated.  Spec takes a trial as this one step; SpecParallel takes it
\* stage by stage (Par_Submit, Par_Complete, Par_Append, Par_Return), with
\* the interrupt and the exception able to land between any two stages.
Record(p, gen) ==
    \E raises \in FailSets(p) :
        LET t == Evaluate(obj, p, gen, raises)
        IN  /\ ncalls' = ncalls + 1
            /\ history' = Append(history, t)
            /\ best' = UpdateBest(best, t, obj.greater_is_better)

\* ----------------------------------------------- the external drivers
\* hyperopt.fmin: max_evals proposals, each evaluated.
Fmin_Step ==
    /\ pc = "search"
    /\ drv.name = "fmin"
    /\ nEval < drv.max_iter
    /\ \E p \in ParamSpace : Record(p, nEval)
    /\ nEval' = nEval + 1
    /\ pc' = IF nEval' = drv.max_iter THEN "postproc" ELSE "search"
    /\ UNCHANGED <<args, pool, optcv, self, obj, drv, ga, interrupted, calls, post,
                   outcome>>

\* The initial points the BayesianOptimization constructor has still to
\* evaluate.
DesignComplete == Len(history) >= self.initial_design_numdata

\* GPyOpt's BayesianOptimization(...): the constructor collects the
\* initial_design_numdata initial points, evaluating the objective on each,
\* before run_optimization is called.
BO_InitialDesign ==
    /\ pc = "bo_init"
    /\ ~DesignComplete
    /\ \E p \in ParamSpace : Record(p, Len(history))
    /\ UNCHANGED <<args, pool, optcv, self, pc, obj, drv, nEval, ga, interrupted,
                   calls, post, outcome>>

\* The constructor returns with its initial points collected, self.opt is
\* stored and fit enters the try block around run_optimization.
BO_EnterTry ==
    /\ pc = "bo_init"
    /\ DesignComplete
    /\ ~pool.busy
    /\ pc' = "search"
    /\ UNCHANGED <<args, pool, optcv, self, obj, drv, history, ncalls, best,
                   nEval, ga, interrupted, calls, post, outcome>>

\* self.opt.run_optimization(max_iter): max_iter further evaluations.
BO_Step ==
    /\ pc = "search"
    /\ drv.name = "BayesianOptimization"
    /\ nEval < drv.max_iter
    /\ \E p \in ParamSpace : Record(p, Len(history))
    /\ nEval' = nEval + 1
    /\ pc' = IF nEval' = drv.max_iter THEN "postproc" ELSE "search"
    /\ UNCHANGED <<args, pool, optcv, self, obj, drv, ga, interrupted, calls, post,
                   outcome>>

\* ------------------------------------------------ the genetic search loop
\* gamin: Initializing -> Evaluating -> Selecting -> Breeding -> Evaluating
\* ... -> Terminal.
DrawMasks == [ParamNames -> Draws]

\* A draw u of numpy.random.rand() falls under probability p.
Hit(u, p) == u < p

\* Per parameter, with probability p the value becomes the other parent's.
Crossover(pa, pb, p, u) ==
    [f1 |-> IF Hit(u["f1"], p) THEN pb.f1 ELSE pa.f1,
     h  |-> IF Hit(u["h"], p) THEN pb.h ELSE pa.h]

\* Per parameter, with probability p the value is sampled again from its
\* distribution (fresh holds the new samples).
Mutate(c, fresh, p, u) ==
    [f1 |-> IF Hit(u["f1"], p) THEN fresh.f1 ELSE c.f1,
     h  |-> IF Hit(u["h"], p) THEN fresh.h ELSE c.h]

\* With probability p the individual is replaced by a fresh random sample.
Inject(c, fresh, p, u) ==
    IF Hit(u, p) THEN [params |-> fresh, origin |-> "random"]
    ELSE [params |-> c, origin |-> "bred"]

\* The ordered parent pairs selection may pick from a population of n.
ParentPairs(n) ==
    IF n = 1 THEN {<<1, 1>>}
    ELSE {pr \in (1..n) \X (1..n) : pr[1] # pr[2]}

InGamin == pc = "search" /\ drv.name = "gamin"

\* Generation 0: iter_pergeneration independent random samples.
GA_Initialize ==
    /\ InGamin
    /\ ga.state = "Initializing"
    /\ \E pop \in [1..drv.iter_pergeneration -> ParamSpace] :
          ga' = [ga EXCEPT
                   !.state = "Evaluating", !.cursor = 1,
                   !.population = [i \in 1..drv.iter_pergeneration |->
                                     [params |-> pop[i], origin |-> "init"]]]
    /\ UNCHANGED <<args, pool, optcv, self, pc, obj, drv, history, ncalls, best, nEval,
                   interrupted, calls, post, outcome>>

\* The next individual of the population is evaluated; the loop ends when
\* max_iter individuals have been evaluated.
GA_Evaluate ==
    /\ InGamin
    /\ ga.state = "Evaluating"
    /\ Record(ga.population[ga.cursor].params, ga.generation)
    /\ nEval' = nEval + 1
    /\ IF nEval' >= drv.max_iter
       THEN /\ ga' = [NoGa EXCEPT !.state = "Terminal",
                                   !.generation = ga.generation,
                                   !.fcalls = ga.fcalls]
            /\ pc' = "postproc"
       ELSE /\ ga' = IF ga.cursor = drv.iter_pergeneration
                     THEN [ga EXCEPT !.state = "Selecting"]
                     ELSE [ga EXCEPT !.cursor = ga.cursor + 1]
            /\ pc' = pc
    /\ UNCHANGED <<args, pool, optcv, self, obj, drv, interrupted, calls, post,
                   outcome>>

\* A parent pair is chosen for every offspring of the next generation.
GA_Select ==
    /\ InGamin
    /\ ga.state = "Selecting"
    /\ \E prs \in [1..drv.iter_pergeneration ->
                     ParentPairs(drv.iter_pergeneration)] :
          ga' = [ga EXCEPT !.state = "Breeding", !.stage = "crossover",
                           !.pairs = prs, !.nextpop = <<>>]
    /\ UNCHANGED <<args, pool, optcv, self, pc, obj, drv, history, ncalls, best, nEval,
                   interrupted, calls, post, outcome>>

NextGeneration == ga.generation + 1
\* The pair of the offspring being bred: the first of those still to breed.
Parents == Head(ga.pairs)

GA_Crossover ==
    /\ InGamin
    /\ ga.state = "Breeding" /\ ga.stage = "crossover"
    /\ LET p == Proba(drv.param_crossover_proba, NextGeneration)
       IN  \E c \in {Crossover(ga.population[Parents[1]].params,
                                ga.population[Parents[2]].params, p, u) :
                        u \in DrawMasks} :
              ga' = [ga EXCEPT
                       !.stage = "mutation",
                       !.child = c,
                       !.proba = p,
                       !.fcalls = @ \cup ProbaCalls(drv.param_crossover_proba,
                                                    NextGeneration)]
    /\ UNCHANGED <<args, pool, optcv, self, pc, obj, drv, history, ncalls, best, nEval,
                   interrupted, calls, post, outcome>>

GA_Mutate ==
    /\ InGamin
    /\ ga.state = "Breeding" /\ ga.stage = "mutation"
    /\ LET p == Proba(drv.param_mutation_proba, NextGeneration)
       IN  \E c \in {Mutate(ga.child, fresh, p, u) :
                        u \in DrawMasks, fresh \in ParamSpace} :
              ga' = [ga EXCEPT
                       !.stage = "sampling",
                       !.child = c,
                       !.proba = p,
                       !.fcalls = @ \cup ProbaCalls(drv.param_mutation_proba,
                                                    NextGeneration)]
    /\ UNCHANGED <<args, pool, optcv, self, pc, obj, drv, history, ncalls, best, nEval,
                   interrupted, calls, post, outcome>>

\* The offspring, or a fresh random sample in its place, joins the next
\* generation; the full next generation becomes the population.
GA_Sample ==
    /\ InGamin
    /\ ga.state = "Breeding" /\ ga.stage = "sampling"
    /\ \E ind \in {Inject(ga.child, fresh,
                           Proba(drv.random_sampling_proba, NextGeneration),
                           u) : u \in Draws, fresh \in ParamSpace} :
          LET p == Proba(drv.random_sampling_proba, NextGeneration)
              np == Append(ga.nextpop, ind)
              fc == ga.fcalls \cup ProbaCalls(drv.random_sampling_proba,
                                              NextGeneration)
          IN  ga' = IF Len(np) = drv.iter_pergeneration
                    THEN [ga EXCEPT
                            !.state = "Evaluating", !.stage = "none",
                            !.generation = NextGeneration,
                            !.population = np, !.cursor = 1,
                            !.pairs = <<>>, !.nextpop = <<>>,
                            !.child = NoParams, !.proba = Absent,
                            !.fcalls = fc]
                    ELSE [ga EXCEPT !.stage = "crossover", !.nextpop = np,
                                    !.pairs = Tail(ga.pairs),
                                    !.child = NoParams, !.proba = p,
                                    !.fcalls = fc]
    /\ UNCHANGED <<args, pool, optcv, self, pc, obj, drv, history, ncalls, best, nEval,
                   interrupted, calls, post, outcome>>

\* ------------------------------------------------------------ interrupt
\* A KeyboardInterrupt while the driver call inside fit's try block runs:
\* caught, and fit goes on to post-processing.  Fold evaluations in flight
\* are abandoned.
Interrupt_InTry ==
    /\ pc = "search"
    /\ interrupted' = TRUE
    /\ pc' = "postproc"
    /\ pool' = [pool EXCEPT !.busy = FALSE]
    /\ ga' = IF drv.name = "gamin"
             THEN [NoGa EXCEPT !.state = "Interrupted",
                               !.generation = ga.generation,
                               !.fcalls = ga.fcalls]
             ELSE ga
    /\ UNCHANGED <<args, optcv, self, obj, drv, history, ncalls, best, nEval,
                   calls, post, outcome>>

\* A KeyboardInterrupt while the statement self.opt =
\* BayesianOptimization(...) runs, be it while the constructor collects its
\* initial points or after the last of them is recorded, up to the try line:
\* the statement is outside fit's try block.
Interrupt_BO_Constructor ==
    /\ pc = "bo_init"
    /\ interrupted' = TRUE
    /\ pc' = "raised"
    /\ outcome' = "KeyboardInterrupt"
    /\ pool' = [pool EXCEPT !.busy = FALSE]
    /\ UNCHANGED <<args, optcv, self, obj, drv, history, ncalls, best, nEval, ga,
                   calls, post>>

\* The objective function is being called: by fmin or run_optimization, by
\* the BayesianOptimization constructor, or by gamin for the individual under
\* evaluation.
InObjective ==
    \/ pc = "bo_init" /\ (~DesignComplete \/ pool.busy)
    \/ pc = "search" /\ drv.name \in {"fmin", "BayesianOptimization"}
    \/ pc = "search" /\ drv.name = "gamin" /\ ga.state = "Evaluating"

\* (faulty variant) a bare except: the exception is swallowed like the
\* interrupt
Exception_InObjective_Swallowed ==
    /\ InObjective
    /\ calls' = Append(calls, "score_summarizer raises")
    /\ pc' = "postproc"
    /\ ga' = IF drv.name = "gamin"
             THEN [NoGa EXCEPT !.state = "Terminal",
                               !.generation = ga.generation,
                               !.fcalls = ga.fcalls]
             ELSE ga
    /\ UNCHANGED <<args, pool, optcv, self, obj, drv, history, ncalls, best, nEval,
                   interrupted, post, outcome>>

\* The score aggregation raises inside a trial (the trial is not recorded).
\* fit's except clause names KeyboardInterrupt only, and the
\* BayesianOptimization constructor is in no try block: the exception leaves
\* gamin and fit.
Exception_InObjective ==
    /\ InObjective
    /\ calls' = Append(calls, "score_summarizer raises")
    /\ pc' = "raised"
    /\ outcome' = "Error"
    /\ pool' = [pool EXCEPT !.busy = FALSE]
    /\ ga' = IF drv.name = "gamin"
             THEN [NoGa EXCEPT !.state = "Terminal",
                               !.generation = ga.generation,
                               !.fcalls = ga.fcalls]
             ELSE ga
    /\ UNCHANGED <<args, optcv, self, obj, drv, history, ncalls, best, nEval,
                   interrupted, post>>

\* ------------------------------------------------------ post-processing
\* (faulty variant) post-processing is handed the last trial, not the best one
Postproc_LastTrial ==
    /\ pc = "postproc"
    /\ post' = [ran |-> TRUE,
                best |-> IF history = <<>> THEN NoBest
                         ELSE [set |-> TRUE,
                               params |-> history[Len(history)].params,
                               score |-> history[Len(history)].score]]
    /\ calls' = calls \o <<"_postproc_fit", "return self">>
    /\ outcome' = "self"
    /\ pc' = "done"
    /\ UNCHANGED <<args, pool, optcv, self, obj, drv, history, ncalls, best, nEval,
                   ga, interrupted>>

\* self._postproc_fit(best_params=..., best_score=...); return self.
Postproc ==
    /\ pc = "postproc"
    /\ post' = [ran |-> TRUE, best |-> best]
    /\ calls' = calls \o <<"_postproc_fit", "return self">>
    /\ outcome' = "self"
    /\ pc' = "done"
    /\ UNCHANGED <<args, pool, optcv, self, obj, drv, history, ncalls, best, nEval, ga,
                   interrupted>>

Next ==
    \/ SimpleoptCV_init
    \/ Fit
    \/ Fmin_Step
    \/ BO_InitialDesign
    \/ BO_EnterTry
    \/ BO_Step
    \/ GA_Initialize
    \/ GA_Evaluate
    \/ GA_Select
    \/ GA_Crossover
    \/ GA_Mutate
    \/ GA_Sample
    \/ Interrupt_InTry
    \/ Interrupt_BO_Constructor
    \/ Exception_InObjective
    \/ Postproc

Spec == Init /\ [][Next]_vars

\* ------------------------------------ gamin with probability functions
\* GAoptCV given probability functions: every probability is a function of
\* the generation or the constant 0, one at least a function.
ScheduleVals == Callables \cup {Prob(0, 1)}

ScheduleArgSets ==
    {[a EXCEPT !.iter_pergeneration = n, !.param_crossover_proba = c,
               !.param_mutation_proba = m, !.random_sampling_proba = r] :
        a \in {b \in BaseArgs : b.backend = "gaopt"},
        n \in PopSizes,
        c \in ScheduleVals, m \in ScheduleVals, r \in ScheduleVals}

InitSchedules ==
    /\ args \in {a \in ScheduleArgSets :
                    \/ callable(a.param_crossover_proba)
                    \/ callable(a.param_mutation_proba)
                    \/ callable(a.random_sampling_proba)}
    /\ optcv = "none"
    /\ self = NoSelf
    /\ pc = "init"
    /\ obj = NoObj
    /\ drv = NoDrv
    /\ history = <<>>
    /\ best = NoBest
    /\ nEval = 0
    /\ ncalls = 0
    /\ ga = NoGa
    /\ interrupted = FALSE
    /\ calls = <<>>
    /\ post = NoPost
    /\ outcome = "none"
    /\ pool = NoPool

NextGamin ==
    \/ SimpleoptCV_init
    \/ Fit
    \/ GA_Initialize
    \/ GA_Evaluate
    \/ GA_Select
    \/ GA_Crossover
    \/ GA_Mutate
    \/ GA_Sample
    \/ Interrupt_InTry
    \/ Exception_InObjective
    \/ Postproc

SpecSchedules == InitSchedules /\ [][NextGamin]_vars

\* ------------------------------------- genetic and random search, seeded
\* GAoptCV and RandomoptCV built with random_state None or an int, the three
\* probabilities of GAoptCV alike.
SeedArgSets ==
    {[a EXCEPT !.random_state = rs] :
        a \in {b \in ArgSets :
                  /\ b.backend \in {"gaopt", "randomopt"}
                  /\ b.param_mutation_proba = b.param_crossover_proba
                  /\ b.random_sampling_proba = b.param_crossover_proba},
        rs \in Seeds \cup {NoneState}}

InitSeed ==
    /\ args \in SeedArgSets
    /\ optcv = "none"
    /\ self = NoSelf
    /\ pc = "init"
    /\ obj = NoObj
    /\ drv = NoDrv
    /\ history = <<>>
    /\ best = NoBest
    /\ nEval = 0
    /\ ncalls = 0
    /\ ga = NoGa
    /\ interrupted = FALSE
    /\ calls = <<>>
    /\ post = NoPost
    /\ outcome = "none"
    /\ pool = NoPool

SpecSeed == InitSeed /\ [][NextGamin]_vars

\* ------------------------------------------------ a trial stage by stage
\* The objective call taken apart (spec 4.3 steps 2-6, sections 4.4 and 5).
\* The driver submits a batch: fmin and GPyOpt one trial, gamin with
\* n_jobs > 1 the individuals of the generation still to evaluate.  Every
\* trial with a feasible selection has one evaluation per fold; at most
\* n_jobs evaluations run at a time, taken in submission order, and they
\* complete in any order.  When all are in, the rows are appended one by
\* one, BestResult being updated after each.  n_jobs reaches every
\* objective function (mk_objfunc); gamin itself is handed no worker count,
\* and that it has the individuals of a generation evaluated together is
\* section 5's, taken here whenever n_jobs > 1.
Feasible(p) == Cardinality(mk_feature_select_index(p)) >= obj.min_n_features

Submitted ==
    {[ind |-> i, fold |-> k] : i \in {j \in 1..Len(pool.batch) :
                                        Feasible(pool.batch[j].params)},
                               k \in Folds}

Finished ==
    {[ind |-> pool.finished[j].ind, fold |-> pool.finished[j].fold] :
        j \in 1..Len(pool.finished)}

Before(a, b) == a.ind < b.ind \/ (a.ind = b.ind /\ a.fold < b.fold)

\* The evaluations a worker is running: the first n_jobs of those not yet
\* completed.
Running ==
    {t \in Submitted \ Finished :
        Cardinality({u \in Submitted \ Finished : Before(u, t)}) < self.n_jobs}

\* The fold scores of trial i of the batch, in fold order.
Collected(i) ==
    [k \in Folds |->
        (CHOOSE e \in {pool.finished[j] : j \in 1..Len(pool.finished)} :
            e.ind = i /\ e.fold = k).r]

\* The row of trial i of the batch.
RowOf(i) ==
    LET b == pool.batch[i]
    IN  IF Feasible(b.params)
        THEN Summarize(obj, b.params, b.gen, mk_feature_select_index(b.params),
                       Collected(i))
        ELSE Evaluate(obj, b.params, b.gen, b.raises)

\* The place in the completion order at which trial i of the batch was
\* complete (0 when it had no evaluation to wait for).
CompletedAt(i) ==
    LET at == {j \in 1..Len(pool.finished) : pool.finished[j].ind = i}
    IN  IF at = {} THEN 0 ELSE CHOOSE j \in at : \A m \in at : m <= j

\* (faulty variant) the rows are written as the trials complete
RowOrder_AsCompleted(n) ==
    CHOOSE f \in [1..n -> 1..n] :
        /\ \A a, b \in 1..n : a # b => f[a] # f[b]
        /\ \A a, b \in 1..n :
              a < b => \/ CompletedAt(f[a]) < CompletedAt(f[b])
                       \/ CompletedAt(f[a]) = CompletedAt(f[b]) /\ f[a] < f[b]

\* The order in which the rows of a batch of n trials are written: the
\* order of submission.
RowOrder(n) == [i \in 1..n |-> i]

\* The trials the driver submits next, each with the folds on which its
\* estimator will raise.
Batches ==
    LET one(gen) == {<<[params |-> p, raises |-> r, gen |-> gen]>> :
                        p \in ParamSpace, r \in UNION {FailSets(q) : q \in ParamSpace}}
        ok(bt) == \A i \in 1..Len(bt) : bt[i].raises \in FailSets(bt[i].params)
    IN  IF drv.name = "fmin"
        THEN {bt \in one(nEval) : ok(bt)}
        ELSE IF drv.name = "BayesianOptimization"
        THEN {bt \in one(Len(history)) : ok(bt)}
        ELSE LET n == IF self.n_jobs > 1
                      THEN Min(drv.iter_pergeneration - ga.cursor + 1,
                               drv.max_iter - nEval)
                      ELSE 1
                 rs == UNION {FailSets(q) : q \in ParamSpace}
             IN  {bt \in {[i \in 1..n |->
                            [params |-> ga.population[ga.cursor + i - 1].params,
                             raises |-> f[i], gen |-> ga.generation]] :
                          f \in [1..n -> rs]} : ok(bt)}

\* The driver calls the objective function.
Par_Submit ==
    /\ ~pool.busy
    /\ \/ pc = "bo_init" /\ ~DesignComplete
       \/ pc = "search" /\ drv.name \in {"fmin", "BayesianOptimization"}
                        /\ nEval < drv.max_iter
       \/ pc = "search" /\ drv.name = "gamin" /\ ga.state = "Evaluating"
    /\ \E bt \in Batches :
          pool' = [busy |-> TRUE, batch |-> bt, finished |-> <<>>,
                   written |-> 0, appended |-> FALSE]
    /\ UNCHANGED <<args, optcv, self, pc, obj, drv, history, best, nEval,
                   ncalls, ga, interrupted, calls, post, outcome>>

\* One of the running fold evaluations completes.
Par_Complete ==
    /\ pool.busy
    /\ \E t \in Running :
          LET b == pool.batch[t.ind]
          IN  pool' = [pool EXCEPT !.finished =
                         Append(@, [ind |-> t.ind, fold |-> t.fold,
                                    r |-> fit_and_score(
                                             b.params,
                                             mk_feature_select_index(b.params),
                                             t.fold, obj.failedscore,
                                             b.raises)])]
    /\ UNCHANGED <<args, optcv, self, pc, obj, drv, history, best, nEval,
                   ncalls, ga, interrupted, calls, post, outcome>>

\* Every evaluation of the batch is in: the next row is appended to the
\* history.
Par_Append ==
    /\ pool.busy
    /\ Finished = Submitted
    /\ ~pool.appended
    /\ pool.written < Len(pool.batch)
    /\ history' = Append(history,
                         RowOf(RowOrder(Len(pool.batch))[pool.written + 1]))
    /\ ncalls' = ncalls + 1
    /\ pool' = [pool EXCEPT !.written = @ + 1, !.appended = TRUE]
    /\ UNCHANGED <<args, optcv, self, pc, obj, drv, best, nEval, ga,
                   interrupted, calls, post, outcome>>

\* BestResult is compared with the row just appended; after the last row of
\* the batch the objective returns and the driver goes on.
Par_Return ==
    /\ pool.busy
    /\ pool.appended
    /\ best' = UpdateBest(best, history[Len(history)], obj.greater_is_better)
    /\ IF pool.written < Len(pool.batch)
       THEN /\ pool' = [pool EXCEPT !.appended = FALSE]
            /\ UNCHANGED <<pc, nEval, ga>>
       ELSE /\ pool' = [pool EXCEPT !.appended = FALSE, !.busy = FALSE]
            /\ nEval' = IF pc = "bo_init" THEN nEval
                        ELSE nEval + Len(pool.batch)
            /\ pc' = IF pc = "bo_init" THEN "bo_init"
                     ELSE IF nEval' >= drv.max_iter THEN "postproc"
                     ELSE "search"
            /\ ga' = IF drv.name # "gamin" THEN ga
                     ELSE IF nEval' >= drv.max_iter
                     THEN [NoGa EXCEPT !.state = "Terminal",
                                       !.generation = ga.generation,
                                       !.fcalls = ga.fcalls]
                     ELSE IF ga.cursor + Len(pool.batch) - 1
                                = drv.iter_pergeneration
                     THEN [ga EXCEPT !.state = "Selecting"]
                     ELSE [ga EXCEPT !.cursor = @ + Len(pool.batch)]
    /\ UNCHANGED <<args, optcv, self, obj, drv, history, ncalls, interrupted,
                   calls, post, outcome>>

\* Every backend, with one worker and with two.  GAoptCV with generations of
\* two, a budget of at most one generation and one trial of the next, and
\* each probability one half; BayesoptCV with one optimization step after its
\* initial design.
ParallelArgSets ==
    {[a EXCEPT !.n_jobs = j] :
        a \in {b \in ArgSets :
                  /\ b.backend \in Supported
                  /\ b.backend = "bayesopt" => b.max_iter = 1
                  /\ b.backend = "gaopt" =>
                        /\ b.iter_pergeneration = 2
                        /\ b.max_iter <= b.iter_pergeneration + 1
                        /\ b.param_crossover_proba = Prob(1, 2)
                        /\ b.param_mutation_proba = Prob(1, 2)
                        /\ b.random_sampling_proba = Prob(1, 2)},
        j \in {1, 2}}

InitParallel ==
    /\ args \in ParallelArgSets
    /\ optcv = "none"
    /\ self = NoSelf
    /\ pc = "init"
    /\ obj = NoObj
    /\ drv = NoDrv
    /\ history = <<>>
    /\ best = NoBest
    /\ nEval = 0
    /\ ncalls = 0
    /\ ga = NoGa
    /\ interrupted = FALSE
    /\ calls = <<>>
    /\ post = NoPost
    /\ outcome = "none"
    /\ pool = NoPool

NextParallel ==
    \/ SimpleoptCV_init
    \/ Fit
    \/ Par_Submit
    \/ Par_Complete
    \/ Par_Append
    \/ Par_Return
    \/ BO_EnterTry
    \/ GA_Initialize
    \/ GA_Select
    \/ GA_Crossover
    \/ GA_Mutate
    \/ GA_Sample
    \/ Interrupt_InTry
    \/ Interrupt_BO_Constructor
    \/ Exception_InObjective
    \/ Postproc

SpecParallel == InitParallel /\ [][NextParallel]_vars

\* --------------------------------------------- BayesoptCV fitted again
\* One BayesoptCV searcher on which fit is called MaxFits times.
RefitArgSets ==
    {[a EXCEPT !.initial_design_numdata = n, !.fits = MaxFits] :
        a \in {b \in BaseArgs : /\ b.backend = "bayesopt"
                                /\ b.max_iter <= MaxEvals},
        n \in 1..MaxInitDesign}

InitRefit ==
    /\ args \in RefitArgSets
    /\ optcv = "none"
    /\ self = NoSelf
    /\ pc = "init"
    /\ obj = NoObj
    /\ drv = NoDrv
    /\ history = <<>>
    /\ best = NoBest
    /\ nEval = 0
    /\ ncalls = 0
    /\ ga = NoGa
    /\ interrupted = FALSE
    /\ calls = <<>>
    /\ post = NoPost
    /\ outcome = "none"
    /\ pool = NoPool

NextRefit ==
    \/ SimpleoptCV_init
    \/ Fit
    \/ BO_InitialDesign
    \/ BO_EnterTry
    \/ BO_Step
    \/ Interrupt_InTry
    \/ Interrupt_BO_Constructor
    \/ Exception_InObjective
    \/ Postproc

SpecRefit == InitRefit /\ [][NextRefit]_vars

\* ================================================================ claims
Last(q) == q[Len(q)]

\* The FailureSentinel of the run's backend: the Bayesian backend's sampled
\* score, the undefined value for the others.
FailureSentinel ==
    IF optcv = "BayesoptCV" THEN self.failedscore ELSE NaN

Infeasible(p) == Cardinality(mk_feature_select_index(p)) < min_n_features

\* C1: for every backend, a KeyboardInterrupt raised at any point while the
\* search driver runs (also before the first trial has completed) is caught:
\* fit does not raise, runs post-processing with the best parameters and
\* score recorded so far and returns self.
C1_InterruptIsCaught ==
    interrupted =>
        /\ pc # "raised"
        /\ outcome # "KeyboardInterrupt"
        /\ pc = "done" => /\ outcome = "self"
                          /\ post.ran
                          /\ post.best = best

\* C2: a trial whose feature flags select fewer than min_n_features columns
\* returns the FailureSentinel, is recorded as failed and makes no
\* FoldEvaluator call; the search is not ended by it (it ends only when the
\* driver's budget is used up or on an interrupt).
C2_InfeasibleSelection ==
    /\ \A i \in 1..Len(history) :
          Infeasible(history[i].params) =>
              /\ history[i].failed
              /\ history[i].ret = FailureSentinel
              /\ history[i].score = FailureSentinel
              /\ history[i].nfold = 0
              /\ history[i].fold_scores = <<>>
    /\ (/\ history # <<>>
        /\ Infeasible(Last(history).params)
        /\ pc \in {"postproc", "done"}
        /\ ~interrupted) => nEval = self.max_iter

C2_Witness ==
    /\ Len(history) >= 2
    /\ Infeasible(history[1].params)
    /\ history[1].nfold = 0
    /\ ~Infeasible(history[2].params)
    /\ history[2].nfold = NFolds

\* C3: the aggregated score of a trial with a valid selection is the
\* arithmetic mean of exactly the fold scores that succeeded, and the
\* FailureSentinel when every fold failed.
GoodFolds(t) == {k \in 1..Len(t.fold_scores) : t.fold_scores[k].ok}

RECURSIVE SumOver(_, _)
SumOver(t, K) ==
    IF K = {} THEN 0
    ELSE LET k == CHOOSE x \in K : TRUE
         IN  t.fold_scores[k].score.num + SumOver(t, K \ {k})

C3_AggregatedScore ==
    \A i \in 1..Len(history) :
        LET t == history[i]
        IN  ~Infeasible(t.params) =>
                IF GoodFolds(t) = {}
                THEN t.score = FailureSentinel
                ELSE /\ ~IsNaN(t.score)
                     /\ t.score.den > 0
                     /\ t.score.num * Cardinality(GoodFolds(t))
                            = t.score.den * SumOver(t, GoodFolds(t))

C3_Witness ==
    \E i, j, k \in 1..Len(history) :
        /\ ~Infeasible(history[i].params)
        /\ GoodFolds(history[i]) = {}
        /\ history[i].score = FailureSentinel
        /\ GoodFolds(history[j]) # {}
        /\ GoodFolds(history[j]) # Folds
        /\ ~IsNaN(history[j].score)
        /\ GoodFolds(history[k]) = Folds
        /\ history[k].score.den > 1

\* The BestResult of the run: the summarizer's while the search runs, the one
\* post-processing received once it has run.
BestResult == IF post.ran THEN post.best ELSE best

Recorded == history' # history
NewTrial == history'[Len(history')]

\* BestResult never gets worse and changes only to a trial just recorded
\* whose aggregated score is strictly better.
C4_StepMonotone ==
    BestResult.set =>
        /\ BestResult'.set
        /\ \/ BestResult' = BestResult
           \/ /\ Recorded
              /\ BestResult'.params = NewTrial.params
              /\ BestResult'.score = NewTrial.score
              /\ Better(BestResult'.score, BestResult.score,
                        self.greater_is_better)

\* C4 (as stated): BestResult is never worse than in an earlier state, is
\* replaced only by a trial with a strictly better aggregated score, and a
\* failed trial scored with the FailureSentinel never replaces an existing
\* BestResult.
C4_FailedNeverReplaces ==
    [][/\ C4_StepMonotone
       /\ (/\ BestResult.set
           /\ Recorded
           /\ NewTrial.failed
           /\ NewTrial.score = FailureSentinel) => BestResult' = BestResult
      ]_vars

\* C4 (amended): BestResult is never worse than in an earlier state, is
\* replaced only by a trial with a strictly better aggregated score, and a
\* failed trial whose FailureSentinel is the undefined value never replaces
\* an existing BestResult (the Bayesian backend's finite FailureSentinel
\* competes like any other score).
C4_BestMonotone ==
    [][/\ C4_StepMonotone
       /\ (/\ BestResult.set
           /\ Recorded
           /\ NewTrial.failed
           /\ NewTrial.score = FailureSentinel
           /\ IsNaN(FailureSentinel)) => BestResult' = BestResult
      ]_vars

\* A failed trial is recorded after a best one and leaves it in place, and a
\* later, strictly better trial replaces it.
C4_Witness ==
    /\ Len(history) = 3
    /\ ~history[1].failed
    /\ history[2].failed /\ IsNaN(history[2].score)
    /\ Better(history[3].score, history[1].score, self.greater_is_better)
    /\ best.set
    /\ best.score = history[3].score
    /\ post.ran

\* The steps of gamin itself.
GA_Step ==
    \/ GA_Initialize
    \/ GA_Evaluate
    \/ GA_Select
    \/ GA_Crossover
    \/ GA_Mutate
    \/ GA_Sample

GaminRun == drv.name = "gamin"

\* A measure of the work gamin has left: the evaluations still to make,
\* and within a generation the steps to the next evaluation.
StepsPerGeneration == 3 * drv.iter_pergeneration + 3

StageIndex == CASE ga.stage = "crossover" -> 0
                [] ga.stage = "mutation" -> 1
                [] ga.stage = "sampling" -> 2
                [] OTHER -> 0

StepsToEvaluation ==
    CASE ga.state = "Initializing" -> StepsPerGeneration - 1
      [] ga.state = "Selecting" -> 3 * drv.iter_pergeneration + 1
      [] ga.state = "Breeding" -> 3 * Len(ga.pairs) - StageIndex
      [] OTHER -> 0

Rank ==
    IF InGamin
    THEN (drv.max_iter - nEval) * StepsPerGeneration + StepsToEvaluation
    ELSE 0

C5_Bounded ==
    GaminRun =>
        /\ nEval <= self.max_iter
        /\ ncalls = nEval
        /\ Len(history) = nEval
        /\ pc = "search" => nEval < self.max_iter
        /\ nEval = self.max_iter =>
               pc \in {"postproc", "done"} /\ ga.state = "Terminal"
        /\ (pc \in {"postproc", "done"} /\ ~interrupted) =>
               nEval = self.max_iter

\* gamin is at a point where one of its steps is defined: a population to
\* draw, an individual to evaluate, parents to select or an offspring to breed.
GaminCanStep ==
    \/ ga.state = "Initializing"
    \/ /\ ga.state = "Evaluating"
       /\ Len(ga.population) = drv.iter_pergeneration
       /\ ga.cursor \in 1..Len(ga.population)
    \/ ga.state = "Selecting" /\ Len(ga.population) = drv.iter_pergeneration
    \/ /\ ga.state = "Breeding"
       /\ ga.stage \in {"crossover", "mutation", "sampling"}
       /\ ga.pairs # <<>>
       /\ Len(ga.pairs) + Len(ga.nextpop) = drv.iter_pergeneration
       /\ \A i \in {1, 2} : Parents[i] \in 1..Len(ga.population)

\* C5: the genetic search loop terminates for every max_iter >= 1 and
\* iter_pergeneration >= 1: it never evaluates more than max_iter
\* individuals, can always take a step while fewer have been evaluated, each
\* of its steps brings it closer to the end (a natural-number measure
\* decreases), it has stopped once max_iter individuals have been evaluated,
\* and it starts nothing after that.
C5_GaminTerminates ==
    [][/\ C5_Bounded
       /\ C5_Bounded'
       /\ InGamin => /\ GaminCanStep
                     /\ Rank >= 0 /\ Rank' >= 0
                     /\ Rank' < Rank
       /\ ga.state = "Terminal" => ga' = ga /\ history' = history
      ]_vars

\* A run whose max_iter is not a multiple of iter_pergeneration ended in the
\* middle of its second generation, and one whose max_iter is below
\* iter_pergeneration in the middle of its first.
C5_Witness ==
    /\ GaminRun /\ pc = "done" /\ ~interrupted
    /\ ga.state = "Terminal"
    /\ nEval = self.max_iter
    /\ optcv = "GAoptCV"
    /\ \/ self.max_iter = 3 /\ self.iter_pergeneration = 2
             /\ ga.generation = 1
       \/ self.max_iter = 1 /\ self.iter_pergeneration = 2
             /\ ga.generation = 0

\* The class each supported backend name designates.
DesignatedClass ==
    [hyperopt |-> "HyperoptCV", bayesopt |-> "BayesoptCV",
     gaopt |-> "GAoptCV", randomopt |-> "RandomoptCV"]

\* C6: constructing SimpleoptCV with a backend name outside {hyperopt,
\* bayesopt, gaopt, randomopt} raises at construction and creates no
\* searcher (and nothing runs afterwards); with a supported name the
\* constructor does not raise and creates exactly the class the name
\* designates.
C6_BackendDispatch ==
    pc # "init" =>
        IF args.backend \in Supported
        THEN /\ optcv = DesignatedClass[args.backend]
             /\ self # NoSelf
             /\ pc # "ctor_raised"
             /\ outcome # "Exception"
        ELSE /\ pc = "ctor_raised"
             /\ outcome = "Exception"
             /\ optcv = "none"
             /\ self = NoSelf
             /\ calls = <<>>
             /\ history = <<>>

C6_Witness ==
    /\ args.backend \notin Supported
    /\ pc = "ctor_raised"
    /\ outcome = "Exception"
    /\ optcv = "none"

\* The GAoptCV searcher built from the same arguments and configured with
\* iter_pergeneration=1, param_crossover_proba=0, param_mutation_proba=0,
\* random_sampling_proba=1.
GAoptCV_AsRandom ==
    [GAoptCV_init(args) EXCEPT
        !.iter_pergeneration = 1,
        !.param_crossover_proba = Prob(0, 1),
        !.param_mutation_proba = Prob(0, 1),
        !.random_sampling_proba = Prob(1, 1)]

\* C7: RandomoptCV.fit performs the operations GAoptCV.fit performs when
\* configured with iter_pergeneration=1, param_crossover_proba=0,
\* param_mutation_proba=0, random_sampling_proba=1: the same objective
\* construction, the same driver call with the same arguments, gamin running
\* generations of one individual, and the same post-processing.
C7_RandomIsGenetic ==
    (optcv = "RandomoptCV" /\ pc \notin {"init", "constructed"}) =>
        /\ obj = GAoptCV_fit_objfunc(GAoptCV_AsRandom, min_n_features)
        /\ drv = GAoptCV_fit_driver(GAoptCV_AsRandom)
        /\ SubSeq(calls, 1, Len(GAoptCV_fit_calls)) = GAoptCV_fit_calls
        /\ Len(ga.population) <= 1
        /\ ga.state \in {"Initializing", "Evaluating", "Selecting", "Breeding",
                         "Terminal", "Interrupted"}
        /\ pc = "done" =>
              /\ calls = GAoptCV_fit_calls \o <<"_postproc_fit", "return self">>
              /\ post = [ran |-> TRUE, best |-> best]
              /\ outcome = "self"

\* A finished random search of three trials, the last in generation 2.
C7_Witness ==
    /\ optcv = "RandomoptCV"
    /\ pc = "done" /\ ~interrupted
    /\ Len(history) = 3
    /\ history[3].gen = 2
    /\ drv = GAoptCV_fit_driver(GAoptCV_AsRandom)

\* The offspring crossover alone has produced, with its two parents.
AfterCrossover ==
    /\ pc = "search" /\ drv.name = "gamin"
    /\ ga.state = "Breeding" /\ ga.stage = "mutation"
FirstParent == ga.population[Parents[1]].params
SecondParent == ga.population[Parents[2]].params

\* C8: with param_crossover_proba=1 every parameter of the offspring
\* crossover produces equals one parent's value for that parameter; with
\* param_crossover_proba=0 the offspring equals the first parent on every
\* parameter; in both cases the offspring of crossover alone is identical to
\* one of its parents.
C8_CrossoverExtremes ==
    (AfterCrossover /\ optcv = "GAoptCV") =>
        /\ self.param_crossover_proba = Prob(1, 1) =>
              \A k \in ParamNames :
                  ga.child[k] \in {FirstParent[k], SecondParent[k]}
        /\ self.param_crossover_proba = Prob(0, 1) =>
              ga.child = FirstParent
        /\ self.param_crossover_proba \in {Prob(0, 1), Prob(1, 1)} =>
              ga.child \in {FirstParent, SecondParent}

\* Parents that differ on every parameter, crossed with probability 1.
C8_Witness ==
    /\ AfterCrossover /\ optcv = "GAoptCV"
    /\ self.param_crossover_proba = Prob(1, 1)
    /\ \A k \in ParamNames : FirstParent[k] # SecondParent[k]
    /\ ga.child = SecondParent

\* The run is the pure random configuration of gamin.
PureRandom ==
    /\ drv.name = "gamin"
    /\ \/ optcv = "RandomoptCV"
       \/ /\ optcv = "GAoptCV"
          /\ self.param_crossover_proba = Prob(0, 1)
          /\ self.param_mutation_proba = Prob(0, 1)
          /\ self.random_sampling_proba = Prob(1, 1)

\* C9: with param_crossover_proba=0, param_mutation_proba=0 and
\* random_sampling_proba=1 every individual of every generation after the
\* first is a fresh random sample over all parameters (never the offspring
\* bred from the current population), and every individual evaluated in such
\* a generation is one of them.
C9_PureRandomSearch ==
    PureRandom =>
        /\ \A i \in 1..Len(ga.nextpop) : ga.nextpop[i].origin = "random"
        /\ \A i \in 1..Len(ga.population) :
              ga.population[i].origin =
                  (IF ga.generation = 0 THEN "init" ELSE "random")

\* A second generation of two fresh samples about to be evaluated, both
\* different from both individuals of the first generation.
C9_Witness ==
    /\ PureRandom /\ optcv = "GAoptCV"
    /\ ga.state = "Evaluating" /\ ga.generation = 1 /\ ga.cursor = 1
    /\ Len(ga.population) = 2
    /\ Len(history) = 2
    /\ history[1].params # history[2].params
    /\ \A i \in 1..2 : /\ ga.population[i].origin = "random"
                        /\ \A j \in 1..2 :
                              ga.population[i].params # history[j].params

\* C10: the trial history has exactly one row per call of the objective
\* function, whether the trial succeeded or failed; a trial that failed on
\* feature selection is marked failed, has no fold scores and its score is
\* the FailureSentinel; every other trial has exactly NFolds fold scores,
\* and a trial not marked failed has NFolds fold scores that all succeeded.
C10_OneRowPerCall ==
    /\ Len(history) = ncalls
    /\ drv.name \in {"fmin", "gamin"} => Len(history) = nEval
    /\ \A i \in 1..Len(history) :
          LET t == history[i]
          IN  /\ Infeasible(t.params) =>
                    /\ t.failed
                    /\ t.score = FailureSentinel
                    /\ Len(t.fold_scores) = 0
              /\ ~Infeasible(t.params) =>
                    /\ Len(t.fold_scores) = NFolds
                    /\ t.nfold = NFolds
              /\ ~t.failed =>
                    /\ Len(t.fold_scores) = NFolds
                    /\ \A k \in Folds : t.fold_scores[k].ok

\* Three trials of a Bayesian search, one failed on feature selection with
\* the sampled failure score, the others with all their fold scores.
C10_Witness ==
    /\ optcv = "BayesoptCV"
    /\ Len(history) = 3 /\ ncalls = 3
    /\ Infeasible(history[2].params)
    /\ history[2].failed
    /\ history[2].score = self.failedscore
    /\ ~IsNaN(history[2].score)
    /\ \A i \in {1, 3} : /\ ~history[i].failed
                          /\ Len(history[i].fold_scores) = NFolds

\* The value of each probability function at the generations 1, 2, ...; a
\* constant is its own value.
ScheduledProba(p, generation) ==
    CASE p = Decay -> <<2, 1, 0, 0, 0, 0>>[generation]
      [] p = Ramp -> <<0, 1, 2, 2, 2, 2>>[generation]
      [] OTHER -> p

\* C11: generation 0 of the genetic search is built by random sampling
\* alone (no probability is evaluated and no individual is bred for it), and
\* a crossover, mutation or random-sampling probability given as a function
\* of the generation is called with the number of the generation being
\* bred, which is 1 at the first call and never 0: the probability each
\* breeding decision uses is the function's value at that number.
C11_ProbaOfGeneration ==
    (optcv = "GAoptCV" /\ drv.name = "gamin") =>
        /\ 0 \notin ga.fcalls
        /\ ga.fcalls \subseteq 1..(ga.generation + 1)
        /\ (ga.generation = 0 /\ ga.state \in {"Evaluating", "Selecting"}) =>
              /\ ga.fcalls = {}
              /\ ga.proba = Absent
              /\ Len(ga.population) = self.iter_pergeneration
              /\ \A i \in 1..Len(ga.population) :
                    ga.population[i].origin = "init"
        /\ (ga.state = "Breeding" /\ ga.stage = "mutation") =>
              /\ ga.proba = ScheduledProba(self.param_crossover_proba,
                                           ga.generation + 1)
              /\ callable(self.param_crossover_proba) =>
                    (ga.generation + 1) \in ga.fcalls
        /\ (ga.state = "Breeding" /\ ga.stage = "sampling") =>
              /\ ga.proba = ScheduledProba(self.param_mutation_proba,
                                           ga.generation + 1)
              /\ callable(self.param_mutation_proba) =>
                    (ga.generation + 1) \in ga.fcalls
        /\ (ga.state = "Breeding" /\ ga.stage = "crossover"
                /\ ga.nextpop # <<>>) =>
              /\ ga.proba = ScheduledProba(self.random_sampling_proba,
                                           ga.generation + 1)
              /\ callable(self.random_sampling_proba) =>
                    (ga.generation + 1) \in ga.fcalls

\* The third generation is being bred with a crossover probability that
\* decays: called with 1 and with 2, it is one half now.
C11_Witness ==
    /\ optcv = "GAoptCV" /\ pc = "search"
    /\ self.param_crossover_proba = Decay
    /\ ga.state = "Breeding" /\ ga.stage = "mutation"
    /\ ga.generation = 1
    /\ ga.fcalls = {1, 2}
    /\ ga.proba = Prob(1, 2)

\* The decision made with probability p never changes a parameter, whatever
\* the draws, and always changes every parameter, whatever the draws.
NeverHits(p) == \A u \in Draws : ~Hit(u, p)
AlwaysHits(p) == \A u \in Draws : Hit(u, p)

\* C12: a param_mutation_proba of exactly 0 resamples no parameter of any
\* offspring and of exactly 1 resamples every parameter of every offspring,
\* in every generation and for every draw of the random numbers; likewise a
\* param_crossover_proba of exactly 0 takes no parameter and of exactly 1
\* takes every parameter from the second parent, for every draw.
C12_ExactZeroAndOne ==
    (optcv = "GAoptCV" /\ InGamin /\ ga.state = "Breeding") =>
        /\ ga.stage = "sampling" =>
              /\ self.param_mutation_proba = Prob(0, 1) =>
                    /\ ga.proba = Prob(0, 1)
                    /\ NeverHits(ga.proba)
                    /\ \A c \in ParamSpace, fresh \in ParamSpace,
                          u \in DrawMasks :
                            Mutate(c, fresh, ga.proba, u) = c
              /\ self.param_mutation_proba = Prob(1, 1) =>
                    /\ ga.proba = Prob(1, 1)
                    /\ AlwaysHits(ga.proba)
                    /\ \A c \in ParamSpace, fresh \in ParamSpace,
                          u \in DrawMasks :
                            Mutate(c, fresh, ga.proba, u) = fresh
        /\ ga.stage = "mutation" =>
              /\ self.param_crossover_proba = Prob(0, 1) =>
                    /\ ga.proba = Prob(0, 1)
                    /\ NeverHits(ga.proba)
                    /\ ga.child = FirstParent
                    /\ \A u \in DrawMasks :
                          Crossover(FirstParent, SecondParent, ga.proba, u)
                              = FirstParent
              /\ self.param_crossover_proba = Prob(1, 1) =>
                    /\ ga.proba = Prob(1, 1)
                    /\ AlwaysHits(ga.proba)
                    /\ ga.child = SecondParent
                    /\ \A u \in DrawMasks :
                          Crossover(FirstParent, SecondParent, ga.proba, u)
                              = SecondParent

\* In the second breeding round an offspring has just been mutated with
\* probability 1, after a crossover with probability 0.
C12_Witness ==
    /\ optcv = "GAoptCV" /\ InGamin
    /\ ga.state = "Breeding" /\ ga.stage = "sampling"
    /\ ga.generation = 1
    /\ self.iter_pergeneration = 1
    /\ self.param_mutation_proba = Prob(1, 1)
    /\ self.param_crossover_proba = Prob(0, 1)
    /\ ga.proba = Prob(1, 1)
    /\ ga.child # ga.population[Parents[1]].params

\* C13: when the FoldEvaluator fails on a fold of a trial, every fold of the
\* trial is still evaluated, each exactly once (no fold is skipped and none
\* is retried); a fold that succeeded contributes its own score and a fold
\* that failed contributes the FailureSentinel; the trial is marked failed
\* exactly when one of its folds failed.
C13_FoldFailureIsLocal ==
    \A i \in 1..Len(history) :
        LET t == history[i]
        IN  ~Infeasible(t.params) =>
                /\ Len(t.fold_scores) = NFolds
                /\ t.nfold = NFolds
                /\ \A k \in Folds :
                      IF t.fold_scores[k].ok
                      THEN t.fold_scores[k].score
                               = Frac(FoldValue(t.params, t.cols, k), 1)
                      ELSE t.fold_scores[k].score = FailureSentinel
                /\ t.failed <=> (\E k \in Folds : ~t.fold_scores[k].ok)

\* A trial whose first fold failed and whose last fold was still evaluated:
\* marked failed, scored by the folds that succeeded.
C13_Witness ==
    \E i \in 1..Len(history) :
        /\ ~Infeasible(history[i].params)
        /\ ~history[i].fold_scores[1].ok
        /\ history[i].fold_scores[1].score = FailureSentinel
        /\ history[i].fold_scores[NFolds].ok
        /\ history[i].failed
        /\ history[i].nfold = NFolds
        /\ ~IsNaN(history[i].score)

\* C17: the failure score handed to the objective function is chosen per
\* backend: BayesoptCV hands over the finite score it sampled and keeps in
\* self.failedscore; HyperoptCV, GAoptCV and RandomoptCV hand over the
\* undefined value.
C17_SentinelPerBackend ==
    pc \notin {"init", "constructed", "ctor_raised"} =>
        IF optcv = "BayesoptCV"
        THEN /\ obj.failedscore = self.failedscore
             /\ obj.failedscore \in RandomScores
             /\ ~IsNaN(obj.failedscore)
             /\ obj.failedscore # Unset
        ELSE /\ optcv \in {"HyperoptCV", "GAoptCV", "RandomoptCV"}
             /\ IsNaN(obj.failedscore)
             /\ obj.failedscore = NaN
             /\ self.failedscore = Unset

\* A Bayesian search has returned its sampled failure score 9 for a trial.
C17_Witness ==
    /\ optcv = "BayesoptCV" /\ pc = "done"
    /\ obj.failedscore = Frac(9, 1)
    /\ \E i \in 1..Len(history) :
          /\ Infeasible(history[i].params)
          /\ history[i].ret = Frac(9, 1)

Performed(op) == \E i \in 1..Len(calls) : calls[i] = op

\* C14: an exception raised inside the score aggregation is caught nowhere:
\* it leaves fit, nothing is evaluated after it and post-processing does
\* not run; the only search that reaches post-processing before its budget
\* is used up is one a KeyboardInterrupt ended.
C14_AggregationErrorPropagates ==
    /\ Performed("score_summarizer raises") =>
          /\ pc = "raised"
          /\ outcome = "Error"
          /\ Last(calls) = "score_summarizer raises"
          /\ ~Performed("_postproc_fit")
          /\ ~post.ran
          /\ Len(history) = ncalls
    /\ outcome = "Error" => Performed("score_summarizer raises")
    /\ (pc \in {"postproc", "done"} /\ nEval < self.max_iter) => interrupted

\* The aggregation raised in the third trial of a genetic search: two trials
\* are recorded and fit has raised.
C14_Witness ==
    /\ optcv = "GAoptCV"
    /\ pc = "raised" /\ outcome = "Error"
    /\ Len(history) = 2
    /\ self.max_iter = 3
    /\ best.set
    /\ ~post.ran

\* Every row of the history is a complete trial record: the parameters, the
\* selected columns, one score per fold (none when the selection was
\* infeasible), each the score of its fold or the failure score, and their
\* aggregate.
CompleteRow(t) ==
    LET infeasible == Infeasible(t.params)
        sentinel == FailureSentinel
    IN  /\ t.params \in ParamSpace
        /\ t.cols = mk_feature_select_index(t.params)
        /\ Len(t.fold_scores) = t.nfold
        /\ t.nfold = IF infeasible THEN 0 ELSE NFolds
        /\ t.failed \in BOOLEAN
        /\ \A k \in 1..Len(t.fold_scores) :
              t.fold_scores[k].score =
                 IF t.fold_scores[k].ok
                 THEN Frac(FoldValue(t.params, t.cols, k), 1)
                 ELSE sentinel
        /\ t.score = IF infeasible THEN sentinel
                     ELSE score_summarizer(t.fold_scores, sentinel)
        /\ t.ret \in {t.score, Neg(t.score)}

RowsComplete == \A i \in 1..Len(history) : CompleteRow(history[i])

\* BestResult is the best aggregated score among the recorded trials, with
\* the parameters of a trial that scored it; unset when none of them scored.
BestIsBestRecorded ==
    IF \E i \in 1..Len(history) : ~IsNaN(history[i].score)
    THEN /\ BestResult.set
         /\ \E i \in 1..Len(history) :
               /\ BestResult.params = history[i].params
               /\ BestResult.score = history[i].score
         /\ \A j \in 1..Len(history) :
               ~Better(history[j].score, BestResult.score,
                       self.greater_is_better)
    ELSE ~BestResult.set

TimesSampled ==
    Cardinality({i \in 1..Len(calls) : calls[i] = "_random_scoring"})

\* C18: BayesoptCV's failure score is sampled exactly once, by the first
\* fit of the instance: once a fit has been entered the score is set and
\* sampled once, every objective function is built with it, and no later
\* step - a further fit included, whatever score its data would sample -
\* changes it.
C18_SampledOnce ==
    [][/\ self.failedscore # Unset => self'.failedscore = self.failedscore
       /\ FitsMade' = 0 => self'.failedscore = Unset /\ TimesSampled' = 0
       /\ FitsMade' >= 1 =>
             /\ TimesSampled' = 1
             /\ self'.failedscore \in RandomScores
             /\ obj'.failedscore = self'.failedscore
      ]_vars

\* A second fit has run to its end, and a trial of it took the failure
\* score of the first fit.
C18_Witness ==
    /\ optcv = "BayesoptCV"
    /\ FitsMade = 2
    /\ pc = "done"
    /\ \E i \in 1..Len(history) :
          history[i].failed /\ history[i].score = self.failedscore

\* ---------------------------------------------------------------- C19
\* The driver ranks trial a ahead of trial b on the values they returned.
Prefers(a, b) ==
    IF Maximize(drv.name) THEN Less(b.ret, a.ret) ELSE Less(a.ret, b.ret)

\* The aggregated score in the driver's convention.
Adjusted(score) ==
    IF obj.greater_is_better /\ ~Maximize(drv.name) THEN Neg(score) ELSE score

ReachedFolds(t) == ~Infeasible(t.params)

\* BestResult holds a recorded, unadjusted aggregated score that no recorded
\* score beats in the configured direction.
BestOnUnadjusted ==
    BestResult.set =>
        /\ \E i \in 1..Len(history) : history[i].score = BestResult.score
        /\ \A i \in 1..Len(history) :
              ~Better(history[i].score, BestResult.score, obj.greater_is_better)

\* C19 as stated: every trial returns its aggregated score in the driver's
\* convention, so that of any two trials the driver prefers the one with
\* the better aggregated score; BestResult is tracked on the unadjusted
\* score.
C19_EveryPairAgrees ==
    /\ \A i \in 1..Len(history) : history[i].ret = Adjusted(history[i].score)
    /\ \A i, j \in 1..Len(history) :
          Prefers(history[i], history[j])
             <=> Better(history[i].score, history[j].score,
                        obj.greater_is_better)
    /\ BestOnUnadjusted

\* C19 (amended): a trial that reached fold evaluation returns its
\* aggregated score negated when the scoring is greater-is-better (every
\* driver minimizes), and of any two such trials the driver prefers the one
\* with the better aggregated score; a trial that failed on feature
\* selection returns the failure score itself, with no sign adjustment;
\* BestResult is tracked on the unadjusted aggregated score in the
\* configured direction.
C19_SignAdjusted ==
    /\ \A i \in 1..Len(history) :
          history[i].ret = IF ReachedFolds(history[i])
                           THEN Adjusted(history[i].score)
                           ELSE obj.failedscore
    /\ \A i, j \in 1..Len(history) :
          ReachedFolds(history[i]) /\ ReachedFolds(history[j]) =>
             (Prefers(history[i], history[j])
                <=> Better(history[i].score, history[j].score,
                           obj.greater_is_better))
    /\ BestOnUnadjusted

\* Greater-is-better scoring: two trials that reached fold evaluation, the
\* first with the better score and the lower returned value, and a trial
\* that failed on feature selection beside them.
C19_Witness ==
    /\ obj.greater_is_better
    /\ BestResult.set
    /\ \E i, j, k \in 1..Len(history) :
          /\ ReachedFolds(history[i]) /\ ReachedFolds(history[j])
          /\ Better(history[i].score, history[j].score, TRUE)
          /\ Less(history[i].ret, history[j].ret)
          /\ ~ReachedFolds(history[k])

\* ---------------------------------------------------------------- C20
\* C20: the genetic and the random search draw only from an explicit random
\* source fixed by random_state, never from the process-wide generator:
\* their fit hands gamin a source built from random_state, does not seed
\* the process-wide generator, and a given random_state lets the run start.
C20_ExplicitRandomSource ==
    optcv \in {"GAoptCV", "RandomoptCV"} /\ FitsMade >= 1 =>
        /\ FitRstate(optcv, self) = StoredRandomState(args.random_state)
        /\ FitRstate(optcv, self) # NotPassed
        /\ ~Performed("np.random.seed")
        /\ outcome # "TypeError"

\* ---------------------------------------------------------------- C16
\* The trial of the batch whose row is due: the next in submission order.
Due == pool.batch[pool.written + 1]

====
